---- MODULE Spec2Model ----
(***************************************************************************)
(* A model of the history bot of src/main.py: the deduplication ledger     *)
(* (SQLite table sent_articles), the content filter, the translator        *)
(* adapter, the two feed selectors, the video selector, and the            *)
(* conversation state machine that sequences the stages of a session.      *)
(*                                                                         *)
(* The handlers and the daily job are coroutines of one event loop.  None  *)
(* of the selectors suspends (feedparser, Gemini and SQLite are called     *)
(* synchronously); a coroutine hands control back only at the await of a   *)
(* send to Telegram.  An action of a handler or of the job is therefore    *)
(* one run from one such await to the next.  The framework takes updates   *)
(* one at a time, so one handler call is in progress at most; the job is a *)
(* task of its own and runs in between.  The ledger is a file that a       *)
(* restart of the process keeps, while the attributes of the bot and the   *)
(* conversations start afresh.                                             *)
(*                                                                         *)
(* Text is a sequence of tokens.  A token is one character, or a run of    *)
(* characters no operation of the program looks inside (a URL prefix, a    *)
(* Hebrew phrase).  Hebrew letters are written by name ("he", "tav").      *)
(***************************************************************************)
EXTENDS Bags, FiniteSets, Integers, Sequences, TLC

VARIABLES
    ledger,     \* rows of table sent_articles, as a bag of records
    ctx,        \* attribute current_content_context of the bot, or Unset
    conv,       \* ConversationHandler's state per user (END: no conversation)
    trail,      \* per user, the stages the current session has visited
    uncommitted, \* rows of the ledger inserted in a transaction no commit has closed
    marked,     \* pairs that mark_article_sent has written and that were not lost
    run,        \* the handler call in progress, suspended at a send, or NoTask
    job,        \* the daily job in progress, suspended at its send, or NoTask
    admin_chat_id, \* attribute admin_chat_id of the bot, read from the environment
    hist,       \* history kept for the claims: what was returned and offered so far
    last        \* the operation that has just run: its inputs and outcome

tasks == <<run, job>>
vars == <<ledger, uncommitted, ctx, conv, trail, marked, admin_chat_id, hist, tasks, last>>

(***************************************************************************)
(* Text                                                                    *)
(***************************************************************************)
SetMin(S) == CHOOSE x \in S : \A y \in S : x <= y
SetMax(S) == CHOOSE x \in S : \A y \in S : x >= y

UpperLetters ==
    <<"A", "B", "C", "D", "E", "F", "G", "H", "I", "J", "K", "L", "M", 
      "N", "O", "P", "Q", "R", "S", "T", "U", "V", "W", "X", "Y", "Z">>
LowerLetters ==
    <<"a", "b", "c", "d", "e", "f", "g", "h", "i", "j", "k", "l", "m", 
      "n", "o", "p", "q", "r", "s", "t", "u", "v", "w", "x", "y", "z">>

\* str.lower() of one character: the ASCII letters; every other token of
\* the model (digits, punctuation, Hebrew letters, RLM) has no lower case
LowerChar(c) ==
    IF \E i \in 1..Len(UpperLetters) : UpperLetters[i] = c
    THEN LowerLetters[CHOOSE i \in 1..Len(UpperLetters) : UpperLetters[i] = c]
    ELSE c

Lower(t) == [i \in 1..Len(t) |-> LowerChar(t[i])]

\* Python's  p in t  for strings
IsSub(p, t) ==
    \E i \in 0..(Len(t) - Len(p)) : SubSeq(t, i + 1, i + Len(p)) = p

Whitespace == {" ", "LF", "TAB"}

\* str.strip()
Strip(t) ==
    LET keep == {i \in 1..Len(t) : t[i] \notin Whitespace}
    IN  IF keep = {} THEN <<>> ELSE SubSeq(t, SetMin(keep), SetMax(keep))

\* str.split('\n')
RECURSIVE SplitLines(_)
SplitLines(t) ==
    LET brk == {i \in 1..Len(t) : t[i] = "LF"}
    IN  IF brk = {} THEN <<t>>
        ELSE <<SubSeq(t, 1, SetMin(brk) - 1)>>
                 \o SplitLines(SubSeq(t, SetMin(brk) + 1, Len(t)))

\* t[:n]
Prefix(t, n) == SubSeq(t, 1, IF Len(t) < n THEN Len(t) ELSE n)

(***************************************************************************)
(* Deduplication ledger                                                    *)
(***************************************************************************)
\* hashlib.md5(f"{title}_{source}".encode()).hexdigest(): md5 is taken to
\* be injective on the formatted string, so the string stands for its digest
ArticleHash(title, source) == title \o <<"_">> \o source

Row(title, source) ==
    [article_hash |-> ArticleHash(title, source), title |-> title, source |-> source]

HasHash(rows, h) == \E r \in BagToSet(rows) : r.article_hash = h

\* a plain INSERT into a table without the UNIQUE constraint
InsertAlways(rows, row) == rows (+) SetToBag({row})

\* INSERT OR IGNORE against the UNIQUE constraint on article_hash
InsertOrIgnore(rows, row) ==
    IF HasHash(rows, row.article_hash) THEN rows ELSE rows (+) SetToBag({row})

\* a check that finds nothing
is_article_sent_never(rows, title, source, dbOk) == FALSE

\* dbOk = FALSE: sqlite raises, the method logs and returns False
is_article_sent_closed(rows, title, source, dbOk) ==
    IF dbOk THEN HasHash(rows, ArticleHash(title, source)) ELSE TRUE

is_article_sent(rows, title, source, dbOk) ==
    IF dbOk THEN HasHash(rows, ArticleHash(title, source)) ELSE FALSE

\* What sqlite does at a write (lines 163 and 167): both statements go
\* through, the INSERT raises, or the INSERT goes through and commit()
\* raises (the database file is locked by another connection).
WriteOutcomes == {"ok", "execute_raises", "commit_raises"}
Healthy(dbOk) == dbOk = "ok"
Inserts(dbOk) == dbOk \in {"ok", "commit_raises"}

\* a plain INSERT into a table without the UNIQUE constraint
mark_article_sent_plain(rows, title, source, dbOk) ==
    IF Inserts(dbOk) THEN InsertAlways(rows, Row(title, source)) ELSE rows

\* a method that writes nothing
mark_article_sent_never(rows, title, source, dbOk) == rows

\* The rows that the bot's connection reads after the call.  When the
\* INSERT raises, the method logs and returns and the table is as it was;
\* when commit() raises it logs and returns as well, and the row stays in
\* the open transaction of self.conn, where every later read of the bot
\* finds it.
mark_article_sent(rows, title, source, dbOk) ==
    IF Inserts(dbOk) THEN InsertOrIgnore(rows, Row(title, source)) ELSE rows

\* The rows of the open transaction after a write that took the table from
\* before to after: a commit that goes through closes the transaction, one
\* that raises leaves the inserted row in it.
open_transaction(pending, before, after, dbOk) ==
    IF Healthy(dbOk) THEN {}
    ELSE IF dbOk = "commit_raises"
         THEN pending \cup (BagToSet(after) \ BagToSet(before))
    ELSE pending

\* sqlite3.connect on the file a previous run left (lines 127-128): the
\* rows that were committed
OnDisk(rows, pending) == [r \in BagToSet(rows) \ pending |-> rows[r]]

(***************************************************************************)
(* Content filter                                                          *)
(***************************************************************************)
filter_keywords == <<
    <<"m", "y", "s", "t", "i", "c", "a", "l">>,
    <<"s", "u", "p", "e", "r", "n", "a", "t", "u", "r", "a", "l">>,
    <<"p", "a", "r", "a", "n", "o", "r", "m", "a", "l">>,
    <<"g", "h", "o", "s", "t">>,
    <<"s", "p", "i", "r", "i", "t">>,
    <<"h", "a", "u", "n", "t", "e", "d">>,
    <<"u", "f", "o">>,
    <<"a", "l", "i", "e", "n">>,
    <<"c", "o", "n", "s", "p", "i", "r", "a", "c", "y">>,
    <<"p", "r", "o", "p", "h", "e", "c", "y">>,
    <<"f", "o", "r", "t", "u", "n", "e", " ", "t", "e", "l", "l", "i", "n", "g">>,
    <<"a", "s", "t", "r", "o", "l", "o", "g", "y">>,
    <<"z", "o", "d", "i", "a", "c">>,
    <<"h", "o", "r", "o", "s", "c", "o", "p", "e">>,
    <<"c", "r", "y", "s", "t", "a", "l">>,
    <<"e", "n", "e", "r", "g", "y">>,
    <<"a", "u", "r", "a">>,
    <<"c", "h", "a", "k", "r", "a">> >>

\* the same test with .lower() left out
should_filter_content_cased(title, summary) ==
    LET text_to_check == title \o <<" ">> \o summary
    IN  \E k \in 1..Len(filter_keywords) : IsSub(filter_keywords[k], text_to_check)

\* HistoryBot.should_filter_content
should_filter_content(title, summary) ==
    LET text_to_check == Lower(title \o <<" ">> \o summary)
    IN  \E k \in 1..Len(filter_keywords) : IsSub(filter_keywords[k], text_to_check)

(***************************************************************************)
(* Translator adapter                                                      *)
(***************************************************************************)
RLM == "RLM"    \* U+200F, the mark written around the cleaned line

\* lines 282-289; Hebrew letters by name, "mem" is the final form
unwanted_patterns == <<
    <<"he", "tav", "resh", "gimel", "vav", "mem", " ", "he", "vav", "alef", ":">>,
    <<"he", "tav", "resh", "gimel", "vav", "mem", ":">>,
    <<"bet", "ayin", "bet", "resh", "yod", "tav", ":">>,
    <<"tav", "resh", "gimel", "vav", "mem", ":">>,
    <<"alef", "vav", ":">>,
    <<"alef", "vav", "pe", "tsadi", "yod", "he">> >>

HasUnwanted(line) ==
    \E k \in 1..Len(unwanted_patterns) : IsSub(unwanted_patterns[k], line)

\* The black box's answer to one prompt: generate_content raises
\* ("call_raises"), reading response.text raises ("text_raises", a blocked
\* or malformed response), or response.text is a string ("text").
GeminiRaises(resp) == resp.kind \in {"call_raises", "text_raises"}

\* the policy without the scan for a clean line
CleanResponseFirstLine(raw) ==
    <<RLM>> \o Strip(SplitLines(Strip(raw))[1]) \o <<RLM>>

\* lines 279-308: the policy applied to a response that was read
CleanResponse(raw) ==
    LET result == Strip(raw)
        lines == SplitLines(result)
        clean == {i \in 1..Len(lines) :
                     Strip(lines[i]) # <<>> /\ ~HasUnwanted(Strip(lines[i]))}
        clean_result == IF clean # {} THEN Strip(lines[SetMin(clean)])
                        ELSE Strip(lines[1])
    IN  <<RLM>> \o clean_result \o <<RLM>>

\* the method without its try/except: a failure of the call reaches the caller
translate_unguarded(text, resp) ==
    IF GeminiRaises(resp) THEN [raised |-> TRUE, value |-> <<>>]
    ELSE [raised |-> FALSE, value |-> CleanResponse(resp.text)]

\* HistoryBot.translate_to_hebrew; the context hint only enters the prompt
translate_to_hebrew(text, resp) ==
    IF GeminiRaises(resp) THEN [raised |-> FALSE, value |-> text]
    ELSE LET clean_result == CleanResponse(resp.text)
         IN  [raised |-> FALSE,
              value |-> IF clean_result # <<>> THEN clean_result ELSE text]

(***************************************************************************)
(* What the feeds can serve                                                *)
(***************************************************************************)
War == <<"W", "a", "r">>
Sea == <<"S", "e", "a">>
Ufo == <<"U", "F", "O">>

Entry(title, summary) ==
    [title |-> title, summary |-> summary, link |-> <<"link:">> \o title,
     has_link |-> TRUE]

EWar == Entry(War, <<>>)
ESea == Entry(Sea, <<"s", "e", "a">>)
EUfo == Entry(Ufo, <<"s", "k", "y">>)
EGhost == Entry(<<"S", "k", "y">>, <<"a", " ", "G", "h", "O", "s", "t">>)
ETheWar == Entry(<<"T", "h", "e", " ", "W", "a", "r">>, <<>>)
ENoLink == [Entry(<<"O", "l", "d">>, <<>>) EXCEPT !.has_link = FALSE, !.link = <<>>]

Feed(entries) == [raises |-> FALSE, entries |-> entries]
FeedError == [raises |-> TRUE, entries |-> <<>>]

\* the feeds a source can serve, by name
FeedCatalogue(name) ==
    CASE name = "error" -> FeedError
      [] name = "empty" -> Feed(<<>>)
      [] name = "war" -> Feed(<<EWar>>)
      [] name = "war-ufo-sea" -> Feed(<<EWar, EUfo, ESea>>)
      [] name = "10ufo-war" -> Feed([j \in 1..11 |-> IF j < 11 THEN EUfo ELSE EWar])
      [] name = "nolink-war" -> Feed(<<ENoLink, EWar>>)
      [] name = "thewar" -> Feed(<<ETheWar>>)
      [] name = "ghost-sea" -> Feed(<<EGhost, ESea>>)

(***************************************************************************)
(* Feed selectors: get_history_today and get_world_content                 *)
(***************************************************************************)
history_rss == <<"https://www.history.com/.rss/full">>
backup_history_rss == <<
    <<"https://www.smithsonianmag.com/rss/latest", "_", "articles/">>,
    <<"https://www.historytoday.com/rss.xml">> >>
natgeo_rss == <<"https://www.nationalgeographic.com/pages/feed/">>
backup_world_rss == <<
    <<"https://www.bbc.com/news/science", "_", "and", "_", "environment/rss.xml">>,
    <<"https://www.scientificamerican.com/xml/rss.xml">> >>

\* lines 318 and 397
sources_to_try(cat) ==
    IF cat = "history" THEN <<history_rss>> \o backup_history_rss
    ELSE <<natgeo_rss>> \o backup_world_rss

HistoryWindow == 10         \* feed.entries[:10]
WorldPool == 15             \* feed.entries[:15]
WorldSample == 10           \* min(10, len(feed.entries))
HistorySummaryCap == 900
HistoryFallbackCap == 600
WorldSummaryCap == 750
WorldFallbackCap == 450

SummaryCap(cat) == IF cat = "history" THEN HistorySummaryCap ELSE WorldSummaryCap
FallbackCap(cat) == IF cat = "history" THEN HistoryFallbackCap ELSE WorldFallbackCap

\* the Hebrew stand-in for a missing summary, one token each
NoSummary(cat) ==
    IF cat = "history" THEN <<"he:lo-zamin-teur-lakatava-zo">>
    ELSE <<"he:tokhen-meanyen-lelo-teur-zamin">>

\* f"history {entry.title}" and f"nature science {entry.title}"
ContextOf(cat, title) ==
    (IF cat = "history" THEN <<"history", " ">> ELSE <<"nature", " ", "science", " ">>)
        \o title

EN == <<"[", "E", "N", "]", " ">>
Ellipsis == <<".", ".", ".">>

Range(s) == {s[i] : i \in DOMAIN s}

\* every sequence of k entries taken from distinct positions of pool
RECURSIVE Arrangements(_, _)
Arrangements(pool, k) ==
    IF k = 0 THEN {<<>>}
    ELSE LET firsts == {j \in 1..Len(pool) : \A h \in 1..(j - 1) : pool[h] # pool[j]}
             Without(j) == SubSeq(pool, 1, j - 1) \o SubSeq(pool, j + 1, Len(pool))
         IN  UNION {{<<pool[j]>> \o rest : rest \in Arrangements(Without(j), k - 1)}
                       : j \in firsts}

\* a sample that is one entry short
SamplesOneShort(entries) ==
    Arrangements(Prefix(entries, WorldPool),
                 (IF Len(entries) < WorldSample THEN Len(entries) ELSE WorldSample) - 1)

\* random.sample(feed.entries[:15], min(10, len(feed.entries)))
Samples(entries) ==
    Arrangements(Prefix(entries, WorldPool),
                 IF Len(entries) < WorldSample THEN Len(entries) ELSE WorldSample)

\* the entries a selector walks, in the order it walks them
Candidates(cat, entries) ==
    IF cat = "history" THEN {Prefix(entries, HistoryWindow)} ELSE Samples(entries)

\* the test of lines 331-339 without the look at the ledger
SkippedIfFiltered(rows, entry, source, readOk) ==
    should_filter_content(entry.title, entry.summary)

\* lines 331-339: the entry is passed over
Skipped(rows, entry, source, readOk) ==
    \/ is_article_sent(rows, entry.title, source, readOk)
    \/ should_filter_content(entry.title, entry.summary)

\* a loop that gives the source up at the first entry it passes over
FirstStopOrGiveUp(cands, passed) == IF cands[1] \notin passed THEN 1 ELSE 0

\* The first candidate the loop does not pass over, 0 when there is none;
\* passed holds the entries of the feed for which Skipped is true.
FirstStop(cands, passed) ==
    LET stops == {j \in 1..Len(cands) : cands[j] \notin passed}
    IN  IF stops = {} THEN 0 ELSE SetMin(stops)

NotFound == [found |-> FALSE]

\* lines 345-375 and 422-452: the item built from the chosen entry
Compose(cat, entry, trT, trS) ==
    LET title_tr == translate_to_hebrew(entry.title, trT).value
        title_hebrew == IF title_tr = entry.title THEN EN \o entry.title ELSE title_tr
        summary == IF entry.summary = <<>> THEN NoSummary(cat) ELSE entry.summary
        longer_summary == IF Len(summary) > SummaryCap(cat)
                          THEN Prefix(summary, SummaryCap(cat)) \o Ellipsis
                          ELSE summary
        summary_tr == translate_to_hebrew(longer_summary, trS).value
        summary_hebrew == IF summary_tr = longer_summary
                          THEN EN \o Prefix(summary, FallbackCap(cat)) \o Ellipsis
                          ELSE summary_tr
    IN  [found |-> TRUE, title |-> title_hebrew, summary |-> summary_hebrew,
         link |-> entry.link, original_title |-> entry.title]

\* lines 387-389 and 464-466: an exception while a source is handled is
\* logged and the loop goes on with the next source
PropagatesSourceError == FALSE
CatchesSourceError == TRUE

\* What a call did at one source: the feed it got (by its name in the
\* catalogue), the entries it examined and the entry it stopped at (<<>>: none).
Visit(source, status, feed, cands, stop) ==
    [source |-> source, status |-> status, feed |-> feed,
     examined |-> Range(cands),
     chosen |-> IF stop = 0 THEN <<>> ELSE <<cands[stop]>>]

\* The source loop (lines 320-339 and 399-418) from source number i on.
\* FeedCatalogue maps the name of a feed to what feedparser.parse returns
\* (raises, or entries); the answer of a source is drawn from the names in
\* feedSet when the source is fetched.  readOk is storage's health during the call.  The
\* value is the set of ways the loop can end: at a chosen entry ("won"), with
\* every source used up, or (never, with the except clause) by raising.
RECURSIVE ScanFrom(_, _, _, _, _, _)
ScanFrom(cat, i, rows, readOk, feedSet, visited) ==
    LET srcs == sources_to_try(cat)
        Failed(v) ==
            IF CatchesSourceError
            THEN ScanFrom(cat, i + 1, rows, readOk, feedSet, Append(visited, v))
            ELSE {[raised |-> TRUE, won |-> FALSE, visited |-> Append(visited, v)]}
        OneSource(name) ==
            LET feed == FeedCatalogue(name)
            IN  IF feed.raises
                THEN Failed(Visit(srcs[i], "error", name, <<>>, 0))
                ELSE IF feed.entries = <<>>
                THEN ScanFrom(cat, i + 1, rows, readOk, feedSet,
                         Append(visited, Visit(srcs[i], "empty", name, <<>>, 0)))
                ELSE LET passed == {e \in Range(feed.entries) :
                                       Skipped(rows, e, srcs[i], readOk)}
                IN UNION {
                    LET stop == FirstStop(cands, passed)
                    IN  IF stop = 0
                        THEN ScanFrom(cat, i + 1, rows, readOk, feedSet,
                                 Append(visited,
                                     Visit(srcs[i], "exhausted", name, cands, 0)))
                        ELSE IF ~cands[stop].has_link   \* entry.link raises
                        THEN Failed(Visit(srcs[i], "raised", name, cands, stop))
                        ELSE {[raised |-> FALSE, won |-> TRUE,
                               visited |-> Append(visited,
                                   Visit(srcs[i], "won", name, cands, stop))]}
                    : cands \in Candidates(cat, feed.entries) }
    IN  IF i > Len(srcs)
        THEN {[raised |-> FALSE, won |-> FALSE, visited |-> visited]}
        ELSE UNION {OneSource(name) : name \in feedSet}

NoCall == [kind |-> "uncalled", text |-> <<>>]

\* lines 377-384: what the selector returns once mark_article_sent is back;
\* the method has logged a storage error itself, so the item is returned
\* whatever writeOk was
AfterMarkOrNothing(item, writeOk) == IF Healthy(writeOk) THEN item ELSE NotFound
AfterMark(item, writeOk) == item

\* Lines 345-384 and 422-461 for the way sc the loop ended: the item is
\* composed with the translator's answers trT and trS, the entry is marked
\* (writeOk: what storage does at the write) and the topic is stored.  A
\* call that ends without an item has called the translator as well when a
\* source was given up at entry.link (line 373), which comes after the two
\* translations (lines 345 and 361): calls counts the translator's calls.
NoWrite == "uncalled"
GivenUpAtLink(visited) ==
    Cardinality({k \in 1..Len(visited) : visited[k].status = "raised"})

Finish(cat, rows, sc, writeOk, trT, trS) ==
    LET v == sc.visited[Len(sc.visited)]
    IN  IF sc.won
        THEN [raised |-> FALSE,
              result |-> AfterMark(Compose(cat, v.chosen[1], trT, trS), writeOk),
              rows |-> mark_article_sent(rows, v.chosen[1].title, v.source, writeOk),
              ctx_set |-> TRUE, ctx |-> ContextOf(cat, v.chosen[1].title),
              visited |-> sc.visited, writeOk |-> writeOk, trT |-> trT, trS |-> trS,
              calls |-> 2 * (GivenUpAtLink(sc.visited) + 1)]
        ELSE [raised |-> sc.raised, result |-> NotFound, rows |-> rows,
              ctx_set |-> FALSE, ctx |-> <<>>,
              visited |-> sc.visited, writeOk |-> NoWrite, trT |-> trT, trS |-> trS,
              calls |-> 2 * GivenUpAtLink(sc.visited)]

\* The outcomes of one call of the selector of category cat; trs holds the
\* pairs of answers the translator can give for the title and the summary.
Selector(cat, rows, readOk, feedSet, writeOks, trs) ==
    UNION {IF sc.won
           THEN {Finish(cat, rows, sc, w, tr[1], tr[2]) : w \in writeOks, tr \in trs}
           ELSE IF GivenUpAtLink(sc.visited) > 0
           THEN {Finish(cat, rows, sc, NoWrite, tr[1], tr[2]) : tr \in trs}
           ELSE {Finish(cat, rows, sc, NoWrite, NoCall, NoCall)}
           : sc \in ScanFrom(cat, 1, rows, readOk, feedSet, <<>>)}

get_history_today(rows, readOk, feedSet, writeOks, trs) ==
    Selector("history", rows, readOk, feedSet, writeOks, trs)

get_world_content(rows, readOk, feedSet, writeOks, trs) ==
    Selector("world", rows, readOk, feedSet, writeOks, trs)

\* the value of an attribute that no assignment has created yet
Unset == <<"<unset>">>

(***************************************************************************)
(* Curated fact and video selectors                                        *)
(***************************************************************************)
\* lines 480-502: the fact is a uniform pick from the pool, whatever the day
DiamondFacts == {"Hope Diamond", "Cullinan", "The Pink Star"}

get_diamond_fact == {[found |-> TRUE, fact |-> f] : f \in DiamondFacts}

\* str.split(): the maximal runs of tokens that are not whitespace
RECURSIVE Words(_)
Words(t) ==
    LET body == {i \in 1..Len(t) : t[i] \notin Whitespace}
    IN  IF body = {} THEN <<>>
        ELSE LET from == SetMin(body)
                 gaps == {i \in from..Len(t) : t[i] \in Whitespace}
                 upto == IF gaps = {} THEN Len(t) ELSE SetMin(gaps) - 1
             IN  <<SubSeq(t, from, upto)>> \o Words(SubSeq(t, upto + 1, Len(t)))

\* ' '.join(words)
RECURSIVE Join(_)
Join(words) ==
    IF words = <<>> THEN <<>>
    ELSE IF Len(words) = 1 THEN words[1]
    ELSE words[1] \o <<" ">> \o Join(Tail(words))

ContextWords == 3           \* .split()[:3]
DescriptionCap == 200       \* description[:200]

\* lines 516-522
ContextQueries(context) ==
    LET base_query == Join(Prefix(Words(context), ContextWords))
    IN  << base_query \o <<" ", "he:documentari", " ", "he:be-ivrit">>,
           base_query \o <<" ", "documentary">>,
           base_query \o <<" ", "educational">>,
           <<"he:tokhen", " ", "he:hinukhi", " ">> \o base_query >>

\* lines 525-531
FallbackQueries == <<
    <<"he:documentari", " ", "he:historia", " ", "he:be-ivrit">>,
    <<"he:tokhen", " ", "he:hinukhi", " ", "he:mada">>,
    <<"he:documentari", " ", "he:teva">>,
    <<"educational", " ", "documentary">>,
    <<"science", " ", "documentary">> >>

skip_keywords == <<
    <<"t", "r", "a", "i", "l", "e", "r">>,
    <<"r", "e", "a", "c", "t", "i", "o", "n">>,
    <<"l", "i", "v", "e">>,
    <<"s", "t", "r", "e", "a", "m">>,
    <<"r", "e", "v", "i", "e", "w">> >>

\* line 556
SkipVideo(title) ==
    \E k \in 1..Len(skip_keywords) : IsSub(Lower(skip_keywords[k]), Lower(title))

Video(title, description) ==
    [title |-> title, description |-> description, videoId |-> <<"id:">> \o title]

VRome == Video(<<"R", "o", "m", "e">>, <<"c", "i", "t", "y">>)
VTrailer == Video(<<"T", "r", "a", "i", "l", "e", "r">>, <<"a", "d">>)
VAlive == Video(<<"A", "L", "I", "V", "E">>, <<>>)

\* what the video search can answer to one query, by name
VideoCatalogue(name) ==
    CASE name = "error" -> [raises |-> TRUE, items |-> <<>>]
      [] name = "none" -> [raises |-> FALSE, items |-> <<>>]
      [] name = "rome" -> [raises |-> FALSE, items |-> <<VRome>>]
      [] name = "trailer" -> [raises |-> FALSE, items |-> <<VTrailer>>]
      [] name = "trailer-rome" -> [raises |-> FALSE, items |-> <<VTrailer, VRome>>]
      [] name = "trailer-alive" -> [raises |-> FALSE, items |-> <<VTrailer, VAlive>>]

\* The query loop (lines 533-577) from variant number i on; the answer to a
\* query is drawn from the names in answerSet when the query is sent.
RECURSIVE SearchFrom(_, _, _, _)
SearchFrom(queries, i, answerSet, tried) ==
    IF i > Len(queries) THEN {[won |-> FALSE, tried |-> tried]}
    ELSE UNION {
        LET answer == VideoCatalogue(name)
            keep == {j \in 1..Len(answer.items) : ~SkipVideo(answer.items[j].title)}
            t == [query |-> queries[i], answer |-> name]
        IN  IF answer.raises \/ keep = {}
            THEN SearchFrom(queries, i + 1, answerSet, Append(tried, t))
            ELSE {[won |-> TRUE, tried |-> Append(tried, t),
                   video |-> answer.items[SetMin(keep)]]}
        : name \in answerSet }

\* HistoryBot.search_youtube_video() as the handler calls it, without a
\* custom query.  Reading the attribute current_content_context before any
\* selector has assigned it raises AttributeError, which the outer except
\* clause (lines 579-582) turns into None.
search_youtube_video(context, answerSet, trs) ==
    IF context = Unset
    THEN {[result |-> NotFound, tried |-> <<>>, trT |-> NoCall, trS |-> NoCall]}
    ELSE UNION {
        IF sc.won
        THEN {[result |->
                  [found |-> TRUE,
                   title |-> translate_to_hebrew(sc.video.title, tr[1]).value,
                   description |->
                       translate_to_hebrew(Prefix(sc.video.description, DescriptionCap),
                                           tr[2]).value,
                   url |-> <<"https://www.youtube.com/watch?v=">> \o sc.video.videoId,
                   original_title |-> sc.video.title,
                   search_query |-> sc.tried[Len(sc.tried)].query],
               tried |-> sc.tried, trT |-> tr[1], trS |-> tr[2]] : tr \in trs}
        ELSE {[result |-> NotFound, tried |-> sc.tried, trT |-> NoCall, trS |-> NoCall]}
        : sc \in SearchFrom(IF context # <<>> THEN ContextQueries(context)
                            ELSE FallbackQueries, 1, answerSet, <<>>) }

\* line 38, and the framework's ConversationHandler.END
WAITING_FOR_WORLD == 0
WAITING_FOR_DIAMOND == 1
WAITING_FOR_VIDEO == 2
END == -1

Users == {"u1", "u2"}

\* what os.getenv('ADMIN_CHAT_ID') can give (line 90): None when the variable
None == "None"
\* is not set, else its text; the id of a private chat is the id of its user
AdminChatIds == {None, "u1"}

NoHistory == [returned |-> {}, repeats |-> {}, offered |-> {},
              topic |-> [u \in Users |-> Unset]]

\* the truth value of an optional text
Truthy(value) == value \notin {None, ""}

Idle == [op |-> "init"]
NoTask == [pc |-> 0]

Init ==
    /\ ledger = EmptyBag
    /\ uncommitted = {}
    /\ run = NoTask
    /\ job = NoTask
    /\ ctx = Unset
    /\ conv = [u \in Users |-> END]
    /\ trail = [u \in Users |-> <<>>]
    /\ marked = {}
    /\ admin_chat_id \in AdminChatIds
    /\ hist = NoHistory
    /\ last = Idle

\* the caller has taken the outcome of the operation that ran last
Return ==
    /\ last # Idle
    /\ last' = Idle
    /\ UNCHANGED <<ledger, uncommitted, ctx, conv, trail, marked, admin_chat_id, hist, tasks>>

\* The process is stopped and started again: HistoryBot() (lines 41-121) and
\* main() (lines 905-948).  The database file keeps the committed rows; the
\* open transaction, the topic, the conversations and the calls that were in
\* progress are gone.  The environment of the deployment is the same.
Restart ==
    /\ last = Idle
    /\ ledger' = OnDisk(ledger, uncommitted)
    /\ uncommitted' = {}
    /\ ctx' = Unset
    /\ conv' = [u \in Users |-> END]
    /\ trail' = [u \in Users |-> <<>>]
    /\ run' = NoTask
    /\ job' = NoTask
    /\ marked' = {p \in marked : Row(p[1], p[2]) \notin uncommitted}
    /\ last' = [op |-> "restart", before |-> ledger]
    /\ UNCHANGED <<admin_chat_id, hist>>

(***************************************************************************)
(* The ledger driven directly, with any title and any source               *)
(***************************************************************************)
LedgerTitles == {<<"a">>, <<"a", "_", "b">>, <<"he", "tav">>}
LedgerSources == {<<"c">>, <<"b", "_", "c">>}

LedgerCheck(title, source, dbOk) ==
    /\ last' = [op |-> "is_article_sent", title |-> title, source |-> source,
                dbOk |-> dbOk,
                ret |-> is_article_sent(ledger, title, source, dbOk)]
    /\ UNCHANGED <<ledger, uncommitted, ctx, conv, trail, marked, admin_chat_id, hist, tasks>>

LedgerMark(title, source, dbOk) ==
    /\ ledger' = mark_article_sent(ledger, title, source, dbOk)
    /\ uncommitted' = open_transaction(uncommitted, ledger, ledger', dbOk)
    /\ marked' = IF Inserts(dbOk) THEN marked \cup {<<title, source>>} ELSE marked
    /\ last' = [op |-> "mark_article_sent", title |-> title, source |-> source,
                dbOk |-> dbOk, before |-> ledger]
    /\ UNCHANGED <<ctx, conv, trail, admin_chat_id, hist, tasks>>

NextLedger ==
    \/ \E title \in LedgerTitles, source \in LedgerSources :
          \/ \E dbOk \in BOOLEAN : LedgerCheck(title, source, dbOk)
          \/ \E dbOk \in WriteOutcomes : LedgerMark(title, source, dbOk)
    \/ Return
    \/ Restart

SpecLedger == Init /\ [][NextLedger]_vars

(***************************************************************************)
(* Claims about the ledger                                                 *)
(***************************************************************************)
\* C3: for any (title, source) pair, a storage-healthy is_article_sent(title,
\* source) answers true exactly when mark_article_sent(title, source) has
\* written before it: false until the first mark of that pair, true after,
\* whatever was done with other pairs.
C3_SeenExactlyAfterMark ==
    (last.op = "is_article_sent" /\ last.dbOk)
        => (last.ret <=> <<last.title, last.source>> \in marked)

\* C4: mark_article_sent is idempotent.  No fingerprint ever has more than
\* one record; a mark of a pair that is already recorded leaves the ledger
\* exactly as it was; after a mark that reached storage the pair's
\* fingerprint has exactly one record.
C4_MarkIdempotent ==
    /\ \A r \in BagToSet(ledger) :
          /\ CopiesIn(r, ledger) = 1
          /\ \A q \in BagToSet(ledger) : q.article_hash = r.article_hash => q = r
    /\ last.op = "mark_article_sent" =>
          /\ HasHash(last.before, ArticleHash(last.title, last.source))
                => ledger = last.before
          /\ Inserts(last.dbOk) =>
                Cardinality({r \in BagToSet(ledger) :
                    r.article_hash = ArticleHash(last.title, last.source)}) = 1

\* a second mark of a pair whose own record is already in the table
C4_Witness ==
    /\ last.op = "mark_article_sent"
    /\ Healthy(last.dbOk)
    /\ Row(last.title, last.source) \in BagToSet(last.before)

\* C29: mark_article_sent(t1, s1) changes the answer of is_article_sent for
\* the pair (t1, s1) only: for every other pair, also one whose title or
\* source contains '_', the answer after the call is the answer before it.
C29_MarkTouchesOnePair ==
    last.op = "mark_article_sent" =>
        \A title \in LedgerTitles, source \in LedgerSources :
            <<title, source>> # <<last.title, last.source>> =>
                is_article_sent(ledger, title, source, TRUE)
                    = is_article_sent(last.before, title, source, TRUE)

(***************************************************************************)
(* The translator driven directly                                          *)
(***************************************************************************)
Shalom == <<"shin", "lamed", "vav", "mem">>

TrTexts == {
    <<"H", "e", "l", "l", "o">>,
    <<"W", "a", "r">>,
    <<>>,
    <<" ">>,
    <<RLM, "H", "i", RLM>>,
    <<"H", "i">>,
    Shalom,
    <<"a", "LF", "b">> }

TrReplies ==
    { Shalom,
      unwanted_patterns[1] \o <<"LF">> \o Shalom,
      unwanted_patterns[4] \o <<" ">> \o Shalom,
      unwanted_patterns[6] \o <<" ", "1", "LF">> \o unwanted_patterns[5] \o <<"x">>,
      <<" ", "LF">> \o Shalom \o <<" ", "LF">>,
      <<"LF", " ", "LF">>,
      <<"H", "i", "LF", "LF", "y", "o">> }
    \cup TrTexts

TrResponses ==
    {[kind |-> "call_raises", text |-> <<>>], [kind |-> "text_raises", text |-> <<>>]}
    \cup {[kind |-> "text", text |-> t] : t \in TrReplies}

Translate(text, resp) ==
    /\ last' = [op |-> "translate_to_hebrew", text |-> text, resp |-> resp,
                ret |-> translate_to_hebrew(text, resp)]
    /\ UNCHANGED <<ledger, uncommitted, ctx, conv, trail, marked, admin_chat_id, hist, tasks>>

NextTranslate == \E text \in TrTexts, resp \in TrResponses : Translate(text, resp)

SpecTranslate == Init /\ [][NextTranslate]_vars

\* C5: translate_to_hebrew never raises to its caller, and whenever the
\* underlying call fails (generate_content raises, or the response cannot be
\* read) it returns the input text unchanged.
C5_TranslateNeverRaises ==
    last.op = "translate_to_hebrew" =>
        /\ ~last.ret.raised
        /\ GeminiRaises(last.resp) => last.ret.value = last.text

\* a failed call on a non-empty text
C5_Witness ==
    /\ last.op = "translate_to_hebrew"
    /\ last.resp.kind = "text_raises"
    /\ last.text = <<"H", "e", "l", "l", "o">>
    /\ last.ret.value = last.text

IsTranslate == last.op = "translate_to_hebrew"
Answered == IsTranslate /\ last.resp.kind = "text"

\* the line of a response that the policy is to keep: the first non-empty
\* line with no boilerplate marker, else the first non-empty line
LineToKeep(raw) ==
    LET lines == SplitLines(raw)
        nonempty == {i \in 1..Len(lines) : Strip(lines[i]) # <<>>}
        clean == {i \in nonempty :
                     \A k \in 1..Len(unwanted_patterns) :
                         ~IsSub(unwanted_patterns[k], lines[i])}
    IN  Strip(lines[SetMin(IF clean # {} THEN clean ELSE nonempty)])

\* C18: for a response that is not empty, the result is the first line, in
\* order, that is non-empty and holds no boilerplate marker, or, when every
\* non-empty line holds one, the first non-empty line; stripped and put
\* between two right-to-left marks.
C18_FirstCleanLine ==
    (Answered /\ Strip(last.resp.text) # <<>>)
        => /\ ~last.ret.raised
           /\ last.ret.value = <<RLM>> \o LineToKeep(last.resp.text) \o <<RLM>>

\* a marker line, then the translation on the second line
C18_Witness ==
    /\ Answered
    /\ last.resp.text = unwanted_patterns[1] \o <<"LF">> \o Shalom
    /\ last.text = <<"H", "e", "l", "l", "o">>
    /\ last.ret.value = <<RLM>> \o Shalom \o <<RLM>>

\* C19: an empty or whitespace-only response is discarded: the result is
\* the input text, unchanged, so that a caller comparing result and input
\* sees that nothing was translated.
C19_EmptyResponseReturnsInput ==
    (Answered /\ Strip(last.resp.text) = <<>>) => last.ret.value = last.text

MaxLedger == 2      \* calls are made while the ledger has fewer rows

FetchFeeds ==
    {"error", "empty", "war", "war-ufo-sea", "10ufo-war", "nolink-war", "ghost-sea"}

TrFail == [kind |-> "call_raises", text |-> <<>>]
TrGood == [kind |-> "text", text |-> Shalom]
FetchTr == {TrGood, TrFail} \X {TrGood, TrFail}

WrittenBy(o) ==
    IF o.result.found /\ Inserts(o.writeOk)
    THEN {<<o.result.original_title, o.visited[Len(o.visited)].source>>}
    ELSE {}

\* one call of a feed selector, with the answers its environment can give
FetchWith(cat, readOk, feedSet, writeOks, trs) ==
    /\ last = Idle
    /\ BagCardinality(ledger) < MaxLedger
    /\ \E o \in Selector(cat, ledger, readOk, feedSet, writeOks, trs) :
          /\ ledger' = o.rows
          /\ uncommitted' = open_transaction(uncommitted, ledger, o.rows, o.writeOk)
          /\ ctx' = IF o.ctx_set THEN o.ctx ELSE ctx
          /\ marked' = marked \cup WrittenBy(o)
          /\ last' = [op |-> "fetch", cat |-> cat, before |-> ledger,
                      readOk |-> readOk, raised |-> o.raised, result |-> o.result,
                      visited |-> o.visited, calls |-> o.calls,
                      writeOk |-> o.writeOk, trT |-> o.trT, trS |-> o.trS]
    /\ UNCHANGED <<conv, trail, admin_chat_id, hist, tasks>>

\* the translator answers both calls, or fails both
FetchBothTr == {<<TrGood, TrGood>>, <<TrFail, TrFail>>}

\* a call in which storage answers, or raises at the read or at the INSERT
Fetch(cat, readOk) ==
    FetchWith(cat, readOk, FetchFeeds, {"ok", "execute_raises"}, FetchBothTr)

\* a call made while another connection holds a lock on the database file:
\* commit() raises
FetchLocked(cat) ==
    FetchWith(cat, TRUE, {"war"}, {"commit_raises"}, {<<TrGood, TrGood>>})

NextFetch ==
    \/ \E cat \in {"history", "world"}, readOk \in BOOLEAN : Fetch(cat, readOk)
    \/ \E cat \in {"history", "world"} : FetchLocked(cat)
    \/ Return
    \/ Restart

\* the selectors never read admin_chat_id: one value of it is enough here
InitFetch == Init /\ admin_chat_id = None

SpecFetch == InitFetch /\ [][NextFetch]_vars

(***************************************************************************)
(* Claims about the feed selectors                                         *)
(***************************************************************************)
\* the entry is valid, not denylisted, and was not in the ledger at the call
Acceptable(e, source, rows) ==
    /\ e.has_link
    /\ ~should_filter_content(e.title, e.summary)
    /\ ~HasHash(rows, ArticleHash(e.title, source))

\* the entry would be passed over: denylisted, or in the ledger at the call
Rejected(e, source, rows) ==
    \/ should_filter_content(e.title, e.summary)
    \/ HasHash(rows, ArticleHash(e.title, source))

IsFetch == last.op = "fetch" /\ last.readOk
NumVisited == Len(last.visited)

\* C1: for get_history_today and get_world_content, for every K below the
\* number of sources: when the first K sources raised or returned no entries,
\* the call goes on to source K+1, and when the entries it examines there are
\* valid and one of them is unfiltered and unseen, the call returns an item
\* built from such an entry of source K+1 (original title and link).  A call
\* stops before the last source only at an item.
C1_FallsThroughToFirstGoodSource ==
    IsFetch =>
        /\ ~last.raised
        /\ ~last.result.found => NumVisited = Len(sources_to_try(last.cat))
        /\ \A k \in 1..NumVisited :
              LET v == last.visited[k]
              IN  (/\ \A j \in 1..(k - 1) : last.visited[j].status \in {"error", "empty"}
                   /\ \A e \in v.examined : e.has_link
                   /\ \E e \in v.examined : Acceptable(e, v.source, last.before))
                  => /\ k = NumVisited
                     /\ last.result.found
                     /\ v.chosen # <<>>
                     /\ v.chosen[1] \in v.examined
                     /\ Acceptable(v.chosen[1], v.source, last.before)
                     /\ last.result.original_title = v.chosen[1].title
                     /\ last.result.link = v.chosen[1].link

\* K = 2 for the world selector: an unreachable source, an empty one, then
\* a source whose entry is returned
C1_Witness ==
    /\ IsFetch
    /\ last.cat = "world"
    /\ NumVisited = 3
    /\ last.visited[1].status = "error"
    /\ last.visited[2].status = "empty"
    /\ last.visited[3].feed = "war"
    /\ last.result.found
    /\ last.result.original_title = War

\* C2: when every source of the category raises, returns no entries, or has
\* only seen or filtered entries among those examined, the selector returns
\* NotFound as a value after trying every source, and does not raise.
C2_NotFoundWhenAllSourcesFail ==
    (/\ IsFetch
     /\ \A k \in 1..NumVisited :
           \/ last.visited[k].status \in {"error", "empty"}
           \/ /\ last.visited[k].examined # {}
              /\ \A e \in last.visited[k].examined :
                    Rejected(e, last.visited[k].source, last.before))
    => /\ ~last.raised
       /\ last.result = NotFound
       /\ NumVisited = Len(sources_to_try(last.cat))
       /\ ledger = last.before

\* an unreachable source, a source whose only clean entry was sent before,
\* and an empty one
C2_Witness ==
    /\ IsFetch
    /\ last.cat = "history"
    /\ last.result = NotFound
    /\ last.visited[1].status = "error"
    /\ last.visited[2].status = "exhausted"
    /\ last.visited[2].feed = "war"
    /\ last.visited[3].status = "empty"

\* C13: when storage fails at is_article_sent the call answers false and the
\* fetch goes on: it does not raise, every source is tried until an item is
\* found, and at each source the loop stops at an entry whenever one it
\* examines is not denylisted, whether or not the ledger holds that entry.
C13_ReadErrorFailsOpen ==
    (last.op = "fetch" /\ ~last.readOk)
        => /\ ~last.raised
           /\ ~last.result.found => NumVisited = Len(sources_to_try(last.cat))
           /\ \A k \in 1..NumVisited :
                LET v == last.visited[k]
                IN  /\ \A e \in v.examined :
                          ~is_article_sent(last.before, e.title, v.source, FALSE)
                    /\ (\E e \in v.examined : ~should_filter_content(e.title, e.summary))
                          => /\ v.chosen # <<>>
                             /\ ~should_filter_content(v.chosen[1].title,
                                                       v.chosen[1].summary)
                    /\ (v.chosen # <<>> /\ v.chosen[1].has_link)
                          => /\ k = NumVisited
                             /\ last.result.found
                             /\ last.result.original_title = v.chosen[1].title

\* storage fails at the read and the entry returned is one the ledger holds
C13_Witness ==
    /\ last.op = "fetch"
    /\ ~last.readOk
    /\ last.result.found
    /\ last.result.original_title = War
    /\ HasHash(last.before, ArticleHash(War, last.visited[NumVisited].source))

\* text holds the keyword at some place, in whatever letter case
ContainsAnyCase(text, keyword) ==
    \E i \in 0..(Len(text) - Len(keyword)) :
        \A j \in 1..Len(keyword) : LowerChar(text[i + j]) = LowerChar(keyword[j])

Denylisted(e) ==
    \E k \in 1..Len(filter_keywords) :
        \/ ContainsAnyCase(e.title, filter_keywords[k])
        \/ ContainsAnyCase(e.summary, filter_keywords[k])

\* C17: every entry a selector examines whose title or summary holds a
\* denylisted keyword, in any letter case, is flagged by
\* should_filter_content and is not the entry the loop stops at; the item
\* returned is built from an entry with no denylisted keyword.
C17_NoDenylistedItem ==
    last.op = "fetch" =>
        /\ \A k \in 1..NumVisited :
              LET v == last.visited[k]
              IN  \A e \in v.examined :
                     Denylisted(e) => /\ should_filter_content(e.title, e.summary)
                                      /\ v.chosen # <<e>>
        /\ last.result.found =>
              LET e == last.visited[NumVisited].chosen[1]
              IN  /\ ~Denylisted(e)
                  /\ last.result.original_title = e.title

\* the keyword is in the summary, in mixed case, and the entry after it is
\* returned
C17_Witness ==
    /\ last.op = "fetch"
    /\ last.visited[NumVisited].feed = "ghost-sea"
    /\ EGhost \in last.visited[NumVisited].examined
    /\ last.result.found
    /\ last.result.original_title = Sea

\* the place in the feed's window of the first entry that is neither in
\* the ledger nor denylisted, 0 when there is none
LowestFresh(window, source, rows) ==
    LET fresh == {j \in 1..Len(window) :
                     /\ ~HasHash(rows, ArticleHash(window[j].title, source))
                     /\ ~Denylisted(window[j])}
    IN  IF fresh = {} THEN 0 ELSE SetMin(fresh)

\* C20: get_history_today (storage healthy at the reads) goes through the
\* sources in list order and, in each, through the first HistoryWindow
\* entries in feed order.  It goes on to the next source when the source
\* raises, is empty, has no entry that is neither seen nor filtered, or
\* fails at that entry (an entry without a link); otherwise it returns the
\* item of the lowest such entry and stops.
C20_HistoryInFeedOrder ==
    (IsFetch /\ last.cat = "history") =>
        /\ NumVisited <= Len(sources_to_try("history"))
        /\ ~last.result.found => NumVisited = Len(sources_to_try("history"))
        /\ \A k \in 1..NumVisited :
              LET v == last.visited[k]
                  feed == FeedCatalogue(v.feed)
                  window == Prefix(feed.entries, HistoryWindow)
                  low == LowestFresh(window, v.source, last.before)
                  stops == ~feed.raises /\ low # 0 /\ window[low].has_link
              IN  /\ v.source = sources_to_try("history")[k]
                  /\ stops <=> (k = NumVisited /\ last.result.found)
                  /\ stops => /\ v.chosen = <<window[low]>>
                              /\ last.result.original_title = window[low].title
                              /\ last.result.link = window[low].link

\* entries War (seen), UFO (filtered), Sea (clean): the item is Sea's
C20_Witness ==
    /\ IsFetch
    /\ last.cat = "history"
    /\ last.visited[NumVisited].feed = "war-ufo-sea"
    /\ HasHash(last.before, ArticleHash(War, last.visited[NumVisited].source))
    /\ last.result.found
    /\ last.result.original_title = Sea

\* C21: a call of a feed selector changes the ledger by the record of the
\* item it returns and by nothing else.  With storage healthy, a call that
\* returns an item has added exactly one record, that of the original title
\* and the URL of the source the entry came from, which the ledger did not
\* hold, and the record is committed; a call that returns NotFound, and a
\* call whose INSERT raises, leave the ledger as it was; a call whose
\* commit raises leaves the record of its item, and no other, in the open
\* transaction; no entry the call passed over has been recorded.
C21_LedgerChangesByReturnedItem ==
    last.op = "fetch" =>
        LET src == last.visited[NumVisited].source
            row == Row(last.result.original_title, src)
        IN  /\ (last.result.found /\ last.readOk /\ Inserts(last.writeOk))
                  => /\ ledger = last.before (+) SetToBag({row})
                     /\ Healthy(last.writeOk) => uncommitted = {}
                     /\ ~Healthy(last.writeOk) => row \in uncommitted
                     /\ ~HasHash(last.before, row.article_hash)
                     /\ BagCardinality(ledger) = BagCardinality(last.before) + 1
                     /\ src \in Range(sources_to_try(last.cat))
            /\ (last.result.found /\ ~last.readOk /\ Inserts(last.writeOk))
                  => /\ CopiesIn(row, ledger) = 1
                     /\ \A r \in BagToSet(ledger) \cup BagToSet(last.before) :
                           r # row => CopiesIn(r, ledger) = CopiesIn(r, last.before)
            /\ (~last.result.found \/ ~Inserts(last.writeOk)) =>
                  (ledger = last.before /\ uncommitted \subseteq BagToSet(last.before))

\* War was seen and UFO is filtered: the one record added is Sea's
C21_Witness ==
    /\ IsFetch
    /\ Healthy(last.writeOk)
    /\ last.result.found
    /\ last.result.original_title = Sea
    /\ EUfo \in last.visited[NumVisited].examined
    /\ EWar \in last.visited[NumVisited].examined
    /\ ledger = last.before (+) SetToBag({Row(Sea, last.visited[NumVisited].source)})

IsWorldNotFound == last.op = "fetch" /\ last.cat = "world" /\ last.result = NotFound

\* the entries of the feed a visit got that random.sample draws from
PoolOf(v) == Range(Prefix(FeedCatalogue(v.feed).entries, WorldPool))

\* C30 as stated: get_world_content returns NotFound only if no source has,
\* among the first 15 entries of its feed, an entry that is unseen and
\* unfiltered, whatever subset is sampled (feeds of well-formed entries).
C30_NotFoundOnlyIfNoneInFirst15 ==
    IsWorldNotFound =>
        \A k \in 1..NumVisited :
            LET v == last.visited[k]
            IN  (\A e \in PoolOf(v) : e.has_link)
                    => \A e \in PoolOf(v) : Rejected(e, v.source, last.before)

\* C30, amended: get_world_content returns NotFound only after every source,
\* and only if each source raised, returned no entries, had a malformed
\* entry examined, or had every entry of the sample drawn from its first 15
\* entries seen or filtered.  The sample is never empty and is the whole
\* feed when the feed has at most 10 entries.
C30_NotFoundOnlyIfSampleRejected ==
    IsWorldNotFound =>
        /\ NumVisited = Len(sources_to_try("world"))
        /\ \A k \in 1..NumVisited :
              LET v == last.visited[k]
                  entries == FeedCatalogue(v.feed).entries
              IN  \/ v.status \in {"error", "empty", "raised"}
                  \/ /\ v.status = "exhausted"
                     /\ v.examined # {}
                     /\ v.examined \subseteq PoolOf(v)
                     /\ Len(entries) <= WorldSample => v.examined = Range(entries)
                     /\ \A e \in v.examined : Rejected(e, v.source, last.before)

\* the sample of ten leaves out the one fresh entry of an eleven-entry feed
C30_Witness ==
    /\ IsWorldNotFound
    /\ \E k \in 1..NumVisited :
          LET v == last.visited[k]
          IN  /\ v.feed = "10ufo-war"
              /\ v.status = "exhausted"
              /\ EWar \in PoolOf(v) \ v.examined
              /\ Acceptable(EWar, v.source, last.before)

(***************************************************************************)
(* The video selector driven directly                                      *)
(***************************************************************************)
VideoFeeds == {"error", "war", "thewar"}
VideoAnswers == {"error", "none", "trailer-alive", "trailer-rome", "rome"}
VideoTr == {<<TrGood, TrGood>>, <<TrFail, TrFail>>}

Search(answerSet, trs) ==
    /\ last = Idle
    /\ \E o \in search_youtube_video(ctx, answerSet, trs) :
          last' = [op |-> "search", ctx_before |-> ctx, result |-> o.result,
                   tried |-> o.tried, trT |-> o.trT, trS |-> o.trS]
    /\ UNCHANGED <<ledger, uncommitted, ctx, conv, trail, marked, admin_chat_id, hist, tasks>>

NextVideo ==
    \/ Return
    \/ Restart
    \/ Search(VideoAnswers, VideoTr)
    \/ \E cat \in {"history", "world"} :
          FetchWith(cat, TRUE, VideoFeeds, {"execute_raises"}, {<<TrGood, TrGood>>})

SpecVideo == InitFetch /\ [][NextVideo]_vars

(***************************************************************************)
(* Claims about the video selector                                         *)
(***************************************************************************)
IsSearch == last.op = "search"

\* the query variants the selector is to search for a topic context
QueriesFor(context) ==
    IF context = Unset \/ context = <<>> THEN FallbackQueries
    ELSE ContextQueries(context)

\* C15: a search with no topic context (no history or world item produced
\* since the process started) searches the generic fallback queries, in
\* their order, starting with the first.
C15_NoContextUsesFallback ==
    (IsSearch /\ last.ctx_before = Unset)
        => /\ last.tried # <<>>
           /\ Len(last.tried) <= Len(FallbackQueries)
           /\ \A i \in 1..Len(last.tried) : last.tried[i].query = FallbackQueries[i]

\* the first result of an answer whose title has no disallowed keyword
Acceptables(name) ==
    LET items == VideoCatalogue(name).items
    IN  {j \in 1..Len(items) :
            \A k \in 1..Len(skip_keywords) :
                ~IsSub(Lower(skip_keywords[k]), Lower(items[j].title))}

\* the variants were searched in order, each one before the last tried had
\* nothing acceptable, and the result is what the last one gave
ScannedInOrder(queries) ==
    /\ Len(last.tried) <= Len(queries)
    /\ \A i \in 1..Len(last.tried) :
          /\ last.tried[i].query = queries[i]
          /\ i < Len(last.tried) => Acceptables(last.tried[i].answer) = {}
    /\ IF last.result.found
       THEN LET t == last.tried[Len(last.tried)]
            IN  /\ Acceptables(t.answer) # {}
                /\ last.result.original_title
                     = VideoCatalogue(t.answer).items[SetMin(Acceptables(t.answer))].title
                /\ last.result.search_query = t.query
       ELSE /\ Len(last.tried) = Len(queries)
            /\ \A i \in 1..Len(last.tried) : Acceptables(last.tried[i].answer) = {}

\* C16: the search returns the first result, in variant order and then in
\* result order, whose title has no disallowed keyword in any letter case;
\* variants that raise, give no items or give only disallowed results are
\* passed over; NotFound comes back exactly when every variant was searched
\* and none gave an acceptable result.
C16_FirstAcceptableVideo == IsSearch => ScannedInOrder(QueriesFor(last.ctx_before))

\* the same, for the searches made with a topic context
ScanWithContext == (IsSearch /\ last.ctx_before # Unset) => ScannedInOrder(QueriesFor(last.ctx_before))

ScanWithContextSeen ==
    /\ IsSearch
    /\ last.ctx_before # Unset
    /\ last.result.found
    /\ Len(last.tried) = 3
    /\ last.tried[1].answer = "error"
    /\ last.tried[2].answer = "trailer-alive"
    /\ last.tried[3].answer = "trailer-rome"

(***************************************************************************)
(* The guided session: one conversation per user, driven by updates        *)
(***************************************************************************)
Updates == {"/start", "/cancel", "world_content", "diamond_fact", "video_content"}

\* ConversationHandler built at lines 925-933, with a hole for the
\* fallbacks and for allow_reentry.  A user without a conversation (END) is
\* offered the entry points only; a user inside one is offered the handlers
\* of the current state, then the fallbacks.
Dispatch(state, update, fallbacks, allow_reentry) ==
    IF state = END \/ (allow_reentry /\ update = "/start")
    THEN IF update = "/start" THEN "start" ELSE "none"
    ELSE IF state = WAITING_FOR_WORLD /\ update = "world_content"
         THEN "world_content_handler"
    ELSE IF state = WAITING_FOR_DIAMOND /\ update = "diamond_fact"
         THEN "diamond_fact_handler"
    ELSE IF state = WAITING_FOR_VIDEO /\ update = "video_content"
         THEN "video_content_handler"
    ELSE IF update \in fallbacks THEN "cancel"
    ELSE "none"

HandlerForReentry(state, update) == Dispatch(state, update, {"/cancel"}, TRUE)
HandlerForNoFallback(state, update) == Dispatch(state, update, {}, FALSE)
HandlerFor(state, update) == Dispatch(state, update, {"/cancel"}, FALSE)

\* what each stage handler returns to the framework
start_returns(found) == IF found THEN WAITING_FOR_WORLD ELSE END
world_returns_skip(found) == IF found THEN WAITING_FOR_VIDEO ELSE END
world_returns_stay(found) == IF found THEN WAITING_FOR_DIAMOND ELSE WAITING_FOR_WORLD
world_returns(found) == IF found THEN WAITING_FOR_DIAMOND ELSE END
diamond_returns(found) == IF found THEN WAITING_FOR_VIDEO ELSE END
video_returns(found) == END
cancel_returns == END

\* the stage of the guided session that a conversation state stands for
StageName(state) ==
    CASE state = WAITING_FOR_WORLD -> "HISTORY_SENT"
      [] state = WAITING_FOR_DIAMOND -> "WORLD_SENT"
      [] state = WAITING_FOR_VIDEO -> "FACT_SENT"
      [] state = END -> "COMPLETE"

Msg(kind, button) == [kind |-> kind, button |-> button]

NoOutcome == [result |-> NotFound]

\* the environment of one handler call
Env(feeds, readOks, writeOks, trs, answers, fails, track) ==
    [feeds |-> feeds, readOks |-> readOks, writeOks |-> writeOks, trs |-> trs,
     answers |-> answers, fails |-> fails, track |-> track]

\* what the transport can do with send number k of a call: deliver it, or,
\* for the numbers in env.fails, refuse it (the await raises)
SendOutcomes(env, k) == {TRUE} \cup {FALSE : j \in {k} \cap env.fails}

\* the (title, source) pairs of the rows
PairsIn(rows) == {<<r.title, r.source>> : r \in BagToSet(rows)}

\* the (original title, source) pair of the item a feed selector returned
PairsFrom(o) ==
    IF o.result.found
    THEN {<<o.result.original_title, o.visited[Len(o.visited)].source>>}
    ELSE {}

\* the (original title, source) pair of the item a feed selector returned to
\* the handler or the job in the step op
PairsOf(op) ==
    IF op.selectors \in {<<"get_history_today">>, <<"get_world_content">>}
    THEN PairsFrom(op.out)
    ELSE {}

\* what a call keeps of the selector it has run
NoSel == [name |-> "none", found |-> FALSE, writeOk |-> NoWrite, pairs |-> {},
          topic |-> Unset]
FeedSel(name, o) ==
    [name |-> name, found |-> o.result.found, writeOk |-> o.writeOk,
     pairs |-> PairsFrom(o), topic |-> IF o.ctx_set THEN o.ctx ELSE Unset]
OtherSel(name, found) == [NoSel EXCEPT !.name = name, !.found = found]

\* the trigger a tick has put into the recipient's chat
OfferedBy(op) ==
    IF op.op = "tick" /\ \E i \in 1..Len(op.msgs) : op.msgs[i].button = "world_content"
    THEN {op.msgs[1].to}
    ELSE {}

\* the op has put the message of a history or world item into a chat
Delivered(op) == \E i \in 1..Len(op.msgs) : op.msgs[i].kind \in {"history", "world"}

\* the chat that the op's item message went to
ReaderOf(op) ==
    IF ~Delivered(op) THEN {}
    ELSE IF op.op = "tick" THEN {op.msgs[1].to} \cap Users
    ELSE {op.user}

\* The history after op, in a specification that keeps the parts named in
\* env.track: the pairs returned so far, those returned more than once, the
\* users a tick has offered its trigger, and for every user the topic of the
\* last history or world item put into their chat.
Tracked(env, op) ==
    [returned |-> IF "returned" \in env.track
                  THEN hist.returned \cup PairsOf(op) ELSE hist.returned,
     repeats |-> IF "returned" \in env.track
                 THEN hist.repeats \cup (PairsOf(op) \cap hist.returned)
                 ELSE hist.repeats,
     offered |-> IF "offered" \in env.track
                 THEN hist.offered \cup OfferedBy(op) ELSE hist.offered,
     topic |-> IF "topic" \in env.track
               THEN [u \in Users |-> IF u \in ReaderOf(op) THEN op.sel.topic
                                     ELSE hist.topic[u]]
               ELSE hist.topic]

\* A handler call that the framework has just begun: the update of user u
\* that handler takes.  pc counts the sends the call has awaited.
NewTask(u, update, handler) ==
    [pc |-> 0, user |-> u, update |-> update, handler |-> handler,
     from |-> conv[u], sending |-> Msg("none", "none"), sent |-> <<>>,
     sel |-> NoSel, ret |-> END, rescue |-> FALSE,
     opened |-> IF handler = "start" THEN <<"WELCOME">> ELSE trail[u]]

\* the send in flight has been delivered
Got(t) == [t EXCEPT !.sent = Append(t.sent, t.sending)]

\* what one step of a handler call did: the selector it ran and its outcome,
\* the messages of the call delivered so far, and whether the call is over
StepOf(t, selectors, out, raised, done, path) ==
    [op |-> "update", user |-> t.user, update |-> t.update, from |-> t.from,
     handler |-> t.handler, before |-> ledger, ctx_before |-> ctx,
     selectors |-> selectors, out |-> out, sel |-> t.sel, msgs |-> t.sent,
     raised |-> raised, done |-> done, pc |-> t.pc, path |-> path]

\* The call t runs on to its next await, the send of msg, where the
\* coroutine hands control back to the event loop.  On the way it may have
\* run a selector, which left the ledger as rows and the topic as context.
Suspend(t, msg, rescue, rows, context, dbOk, wrote, selectors, out, sel, ret) ==
    LET next == [t EXCEPT !.pc = t.pc + 1, !.sending = msg, !.sel = sel,
                          !.ret = ret, !.rescue = rescue]
    IN  /\ ledger' = rows
        /\ uncommitted' = open_transaction(uncommitted, ledger, rows, dbOk)
        /\ ctx' = context
        /\ marked' = marked \cup wrote
        /\ run' = next
        /\ last' = StepOf(next, selectors, out, FALSE, FALSE, t.opened)
        /\ UNCHANGED <<conv, trail, admin_chat_id, job>>

\* the call goes on to its next send without a selector
GoOn(t, msg, rescue) ==
    Suspend(t, msg, rescue, ledger, ctx, NoWrite, {}, <<>>, NoOutcome, t.sel, t.ret)

\* The framework's bookkeeping at the end of the call t.  A handler that
\* raises leaves the conversation where it was; one that returns has its
\* return value stored, END ending the conversation.
Handled(t, raised, selectors, out, ret) ==
    LET path == Append(t.opened, StageName(ret))
    IN  /\ conv' = IF raised THEN conv ELSE [conv EXCEPT ![t.user] = ret]
        /\ trail' = IF raised THEN trail
                    ELSE [trail EXCEPT ![t.user] = IF ret = END THEN <<>> ELSE path]
        /\ run' = NoTask
        /\ last' = StepOf(t, selectors, out, raised, TRUE,
                          IF raised THEN t.opened ELSE path)
        /\ UNCHANGED <<ledger, uncommitted, ctx, marked, admin_chat_id, job>>

\* the send in flight came back: the handler returns, or the send raised
\* and the exception leaves the handler
Ends(t, ok) ==
    IF ok THEN Handled(Got(t), FALSE, <<>>, NoOutcome, t.ret)
    ELSE Handled(t, TRUE, <<>>, NoOutcome, t.ret)

\* the call in progress is the call of handler for user u
Running(u, handler) == run.pc > 0 /\ run.user = u /\ run.handler = handler

\* start(), lines 587-640: the welcome (line 603), the selector, the item
\* or the notice (lines 629, 639)
Start(u, env) ==
    /\ last = Idle
    /\ IF run.pc = 0
       THEN /\ HandlerFor(conv[u], "/start") = "start"
            /\ GoOn(NewTask(u, "/start", "start"), Msg("welcome", "none"), FALSE)
       ELSE /\ Running(u, "start")
            /\ \E ok \in SendOutcomes(env, run.pc) :
                IF ok /\ run.pc = 1
                THEN \E readOk \in env.readOks :
                     \E o \in get_history_today(ledger, readOk, env.feeds,
                                                env.writeOks, env.trs) :
                        IF o.raised
                        THEN Handled(Got(run), TRUE, <<"get_history_today">>, o, END)
                        ELSE Suspend(Got(run),
                                 IF o.result.found THEN Msg("history", "world_content")
                                 ELSE Msg("notice", "none"),
                                 FALSE, o.rows, IF o.ctx_set THEN o.ctx ELSE ctx,
                                 o.writeOk, WrittenBy(o), <<"get_history_today">>, o,
                                 FeedSel("get_history_today", o),
                                 start_returns(o.result.found))
                ELSE Ends(run, ok)
    /\ hist' = Tracked(env, last')

\* world_content_handler(), lines 642-677: query.answer() (line 645), the
\* 'searching' edit (line 647), the selector, the item or the notice
WorldContent(u, env) ==
    /\ last = Idle
    /\ IF run.pc = 0
       THEN /\ HandlerFor(conv[u], "world_content") = "world_content_handler"
            /\ GoOn(NewTask(u, "world_content", "world_content_handler"),
                    Msg("answer", "none"), FALSE)
       ELSE /\ Running(u, "world_content_handler")
            /\ \E ok \in SendOutcomes(env, run.pc) :
                IF ok /\ run.pc = 1
                THEN GoOn(Got(run), Msg("searching", "none"), FALSE)
                ELSE IF ok /\ run.pc = 2
                THEN \E readOk \in env.readOks :
                     \E o \in get_world_content(ledger, readOk, env.feeds,
                                                env.writeOks, env.trs) :
                        IF o.raised
                        THEN Handled(Got(run), TRUE, <<"get_world_content">>, o, END)
                        ELSE Suspend(Got(run),
                                 IF o.result.found THEN Msg("world", "diamond_fact")
                                 ELSE Msg("notice", "none"),
                                 FALSE, o.rows, IF o.ctx_set THEN o.ctx ELSE ctx,
                                 o.writeOk, WrittenBy(o), <<"get_world_content">>, o,
                                 FeedSel("get_world_content", o),
                                 world_returns(o.result.found))
                ELSE Ends(run, ok)
    /\ hist' = Tracked(env, last')

\* diamond_fact_handler(), lines 679-715
DiamondFact(u, env) ==
    /\ last = Idle
    /\ IF run.pc = 0
       THEN /\ HandlerFor(conv[u], "diamond_fact") = "diamond_fact_handler"
            /\ GoOn(NewTask(u, "diamond_fact", "diamond_fact_handler"),
                    Msg("answer", "none"), FALSE)
       ELSE /\ Running(u, "diamond_fact_handler")
            /\ \E ok \in SendOutcomes(env, run.pc) :
                IF ok /\ run.pc = 1
                THEN GoOn(Got(run), Msg("searching", "none"), FALSE)
                ELSE IF ok /\ run.pc = 2
                THEN \E o \in get_diamond_fact :
                        Suspend(Got(run),
                            IF o.found THEN Msg("fact", "video_content")
                            ELSE Msg("notice", "none"),
                            FALSE, ledger, ctx, NoWrite, {}, <<"get_diamond_fact">>,
                            [result |-> o], OtherSel("get_diamond_fact", o.found),
                            diamond_returns(o.found))
                ELSE Ends(run, ok)
    /\ hist' = Tracked(env, last')

\* video_content_handler(), lines 717-768: the one handler with a try
\* around its sends.  A send that raises takes the call to the except
\* clause, which sends the error notice (line 767) and returns END; when
\* that send raises too, the exception leaves the handler.
VideoContent(u, env) ==
    /\ last = Idle
    /\ IF run.pc = 0
       THEN /\ HandlerFor(conv[u], "video_content") = "video_content_handler"
            /\ GoOn(NewTask(u, "video_content", "video_content_handler"),
                    Msg("answer", "none"), FALSE)
       ELSE /\ Running(u, "video_content_handler")
            /\ IF run.rescue
               THEN \E ok \in SendOutcomes(env, 1) : Ends(run, ok)
               ELSE \E ok \in SendOutcomes(env, run.pc) :
                    IF ~ok
                    THEN Suspend(run, Msg("error", "none"), TRUE, ledger, ctx,
                                 NoWrite, {}, <<>>, NoOutcome, run.sel, END)
                    ELSE IF run.pc = 1
                    THEN GoOn(Got(run), Msg("searching", "none"), FALSE)
                    ELSE IF run.pc = 2
                    THEN \E o \in search_youtube_video(ctx, env.answers, env.trs) :
                            Suspend(Got(run),
                                IF o.result.found THEN Msg("video", "none")
                                ELSE Msg("notice", "none"),
                                FALSE, ledger, ctx, NoWrite, {},
                                <<"search_youtube_video">>, o,
                                OtherSel("search_youtube_video", o.result.found),
                                video_returns(o.result.found))
                    ELSE Ends(run, TRUE)
    /\ hist' = Tracked(env, last')

\* cancel(), lines 770-773
Cancel(u, env) ==
    /\ last = Idle
    /\ IF run.pc = 0
       THEN /\ HandlerFor(conv[u], "/cancel") = "cancel"
            /\ Suspend(NewTask(u, "/cancel", "cancel"), Msg("cancelled", "none"),
                       FALSE, ledger, ctx, NoWrite, {}, <<>>, NoOutcome, NoSel,
                       cancel_returns)
       ELSE /\ Running(u, "cancel")
            /\ \E ok \in SendOutcomes(env, run.pc) : Ends(run, ok)
    /\ hist' = Tracked(env, last')

\* An update that no handler of the user's conversation accepts.  The
\* framework takes the updates one at a time: none is looked at while a
\* handler call is in progress.
Ignored(u, update) ==
    /\ last = Idle
    /\ run.pc = 0
    /\ HandlerFor(conv[u], update) = "none"
    /\ last' = StepOf(NewTask(u, update, "none"), <<>>, NoOutcome, FALSE, TRUE,
                      trail[u])
    /\ UNCHANGED <<ledger, uncommitted, ctx, conv, trail, marked, admin_chat_id, hist, tasks>>

\* line 174, with the test left out and as written
AnyRecipient(chat_id) == TRUE
HasRecipient(chat_id) == Truthy(chat_id)

DailyMsg(kind, button, to) == [kind |-> kind, button |-> button, to |-> to]

\* lines 183-218: the message of the tick
daily_message_with_trigger(found, to) ==
    DailyMsg(IF found THEN "history" ELSE "notice", "world_content", to)
daily_message(found, to) ==
    IF found THEN DailyMsg("history", "world_content", to)
    ELSE DailyMsg("notice", "none", to)

\* what one step of the daily job did
TickStep(selectors, out, sel, msgs, done) ==
    [op |-> "tick", before |-> ledger, ctx_before |-> ctx,
     selectors |-> selectors, out |-> out, sel |-> sel, msgs |-> msgs,
     raised |-> FALSE, done |-> done]

\* HistoryBot.send_daily_history(), the job the scheduler runs every day as
\* a task of the event loop that runs the handlers (lines 171-221).  With a
\* recipient it runs the selector and hands control back at its send (lines
\* 204, 214); its except clause swallows a refused send.
Tick(env) ==
    /\ last = Idle
    /\ IF job.pc = 0
       THEN IF ~HasRecipient(admin_chat_id)
            THEN /\ last' = TickStep(<<>>, NoOutcome, NoSel, <<>>, TRUE)
                 /\ UNCHANGED <<ledger, uncommitted, ctx, conv, trail, marked,
                                admin_chat_id, tasks>>
            ELSE \E readOk \in env.readOks :
                 \E o \in get_history_today(ledger, readOk, env.feeds,
                                            env.writeOks, env.trs) :
                    LET sel == FeedSel("get_history_today", o)
                    IN  /\ ledger' = o.rows
                        /\ uncommitted' =
                              open_transaction(uncommitted, ledger, o.rows, o.writeOk)
                        /\ ctx' = IF o.ctx_set THEN o.ctx ELSE ctx
                        /\ marked' = marked \cup WrittenBy(o)
                        /\ job' = IF o.raised THEN NoTask
                                  ELSE [pc |-> 1, sel |-> sel,
                                        sending |-> daily_message(o.result.found,
                                                                  admin_chat_id)]
                        /\ last' = TickStep(<<"get_history_today">>, o, sel, <<>>,
                                            o.raised)
                        /\ UNCHANGED <<conv, trail, admin_chat_id, run>>
       ELSE \E ok \in SendOutcomes(env, 1) :
                /\ job' = NoTask
                /\ last' = TickStep(<<>>, NoOutcome, job.sel,
                                    IF ok THEN <<job.sending>> ELSE <<>>, TRUE)
                /\ UNCHANGED <<ledger, uncommitted, ctx, conv, trail, marked,
                               admin_chat_id, run>>
    /\ hist' = Tracked(env, last')

\* the session with a transport that delivers every send
SessionFeeds == {"error", "war"}
SessionAnswers == {"error", "trailer-rome"}
SessionEnv == Env(SessionFeeds, BOOLEAN, {"ok", "execute_raises"}, FetchBothTr, SessionAnswers, {0}, {})

Next ==
    \/ Return
    \/ Restart
    \/ Tick(SessionEnv)
    \/ \E u \in Users :
        \/ Start(u, SessionEnv)
        \/ WorldContent(u, SessionEnv)
        \/ DiamondFact(u, SessionEnv)
        \/ VideoContent(u, SessionEnv)
        \/ Cancel(u, SessionEnv)
        \/ \E update \in Updates : Ignored(u, update)

Spec == Init /\ [][Next]_vars

(***************************************************************************)
(* Claims about the guided session                                         *)
(***************************************************************************)
IsUpdate == last.op = "update"
\* the step in which the handler ran the selector
Ran(selector) == IsUpdate /\ last.selectors = <<selector>>
\* the step in which the handler call ended: it returned, or raised
Over == IsUpdate /\ last.done
\* the call that has ended had run the selector
OverAfter(selector) == Over /\ last.sel.name = selector
Marked(text) == Prefix(text, Len(EN)) = EN

\* C6: every selector that calls the translator (history, world, video) and
\* gets back the title it passed in returns the title with the
\* original-language tag in front; none returns the raw title.
C6_UntranslatedIsMarked ==
    \A selector \in {"get_history_today", "get_world_content", "search_youtube_video"} :
        (/\ Ran(selector)
         /\ last.out.result.found
         /\ translate_to_hebrew(last.out.result.original_title, last.out.trT).value
                = last.out.result.original_title)
            => Marked(last.out.result.title)

FullOrder == <<"WELCOME", "HISTORY_SENT", "WORLD_SENT", "FACT_SENT", "COMPLETE">>

\* the stages in order up to some stage, possibly cut short by COMPLETE
LegalPath(p) ==
    \E k \in 1..4 : p \in {Prefix(FullOrder, k), Append(Prefix(FullOrder, k), "COMPLETE")}

\* C7: the stages a session has visited are always an initial part of
\* WELCOME, HISTORY_SENT, WORLD_SENT, FACT_SENT, COMPLETE, possibly cut short
\* by COMPLETE (never backwards, never a stage skipped or repeated); the
\* conversation state is the stage reached; and a session that the video
\* trigger completes has visited all five, in that order.
C7_StagesInOrder ==
    /\ \A u \in Users :
          IF conv[u] = END THEN trail[u] = <<>>
          ELSE /\ LegalPath(trail[u])
               /\ trail[u][Len(trail[u])] = StageName(conv[u])
    /\ (IsUpdate /\ last.handler # "none") => LegalPath(last.path)
    /\ (Over /\ last.handler = "video_content_handler" /\ ~last.raised)
          => last.path = FullOrder

C7_Witness ==
    /\ OverAfter("search_youtube_video")
    /\ last.sel.found
    /\ last.path = FullOrder
    /\ conv[last.user] = END

\* C8: a stage handler whose selector returned NotFound ends the session:
\* the conversation is at END (COMPLETE), the last message is the terminal
\* notice and no message of the handler carries a next-stage trigger.
C8_NotFoundCompletes ==
    (Over /\ last.sel.name # "none" /\ ~last.sel.found /\ ~last.raised)
        => /\ conv[last.user] = END
           /\ last.path[Len(last.path)] = "COMPLETE"
           /\ last.msgs[Len(last.msgs)].kind = "notice"
           /\ \A i \in 1..Len(last.msgs) : last.msgs[i].button = "none"

C8_Witness ==
    /\ OverAfter("get_world_content")
    /\ last.from = WAITING_FOR_WORLD
    /\ ~last.sel.found
    /\ conv[last.user] = END
    /\ last.msgs[Len(last.msgs)] = Msg("notice", "none")

\* C9: after a /cancel the user's session is at COMPLETE (no conversation),
\* from every state; inside a session the cancel handler took it there; no
\* selector ran and the ledger and the context are as they were.
C9_CancelCompletes ==
    (IsUpdate /\ last.update = "/cancel")
        => /\ last.from # END => last.handler = "cancel"
           /\ last.done =>
                 /\ conv[last.user] = END
                 /\ trail[last.user] = <<>>
                 /\ last.from # END => last.path[Len(last.path)] = "COMPLETE"
           /\ last.selectors = <<>>
           /\ last.sel = NoSel
           /\ ledger = last.before
           /\ ctx = last.ctx_before

C9_Witness ==
    /\ IsUpdate
    /\ last.update = "/cancel"
    /\ last.done
    /\ last.msgs = <<Msg("cancelled", "none")>>
    /\ last.from = WAITING_FOR_VIDEO
    /\ last.handler = "cancel"
    /\ conv[last.user] = END

\* the trigger that each state of the session waits for
Expects(state, update) ==
    \/ state = END /\ update = "/start"
    \/ state = WAITING_FOR_WORLD /\ update = "world_content"
    \/ state = WAITING_FOR_DIAMOND /\ update = "diamond_fact"
    \/ state = WAITING_FOR_VIDEO /\ update = "video_content"
    \/ state # END /\ update = "/cancel"

\* C10: an update the state of the session does not expect is ignored: no
\* handler takes it, the session stays in its state with the stages it had
\* visited, no selector runs, nothing is sent, and the ledger and the
\* context are as they were.
C10_UnexpectedIgnored ==
    (IsUpdate /\ ~Expects(last.from, last.update))
        => /\ last.handler = "none"
           /\ conv[last.user] = last.from
           /\ trail[last.user] = last.path
           /\ last.selectors = <<>>
           /\ last.msgs = <<>>
           /\ ledger = last.before
           /\ ctx = last.ctx_before

C10_Witness ==
    /\ IsUpdate
    /\ last.update = "/start"
    /\ last.from = WAITING_FOR_DIAMOND
    /\ conv[last.user] = WAITING_FOR_DIAMOND
    /\ last.selectors = <<>>

\* The first two stages and the daily job over a storage that can raise at
\* the read, at the INSERT and at commit(), with restarts in between.
StorageEnv == Env({"war"}, BOOLEAN, WriteOutcomes, {<<TrGood, TrGood>>}, {}, {0}, {})

NextStorage ==
    \/ Return
    \/ Restart
    \/ Tick(StorageEnv)
    \/ \E u \in Users :
        \/ Start(u, StorageEnv)
        \/ WorldContent(u, StorageEnv)
        \/ Cancel(u, StorageEnv)

SpecStorage == Init /\ [][NextStorage]_vars

Won(o) == o.visited # <<>> /\ o.visited[Len(o.visited)].status = "won"

\* C14: when storage fails at mark_article_sent, the selector that had
\* stopped at an entry still returns the item composed from it, the handler
\* does not raise, sends the item with the next trigger, and the session is
\* at the next stage; when the INSERT raised nothing has been written.
C14_MarkErrorNonFatal ==
    \A h \in {<<"get_history_today", WAITING_FOR_WORLD, Msg("history", "world_content")>>,
              <<"get_world_content", WAITING_FOR_DIAMOND, Msg("world", "diamond_fact")>>} :
        /\ (Ran(h[1]) /\ Won(last.out) /\ ~Healthy(last.out.writeOk))
              => /\ last.out.result.found
                 /\ last.out.result.original_title
                        = last.out.visited[Len(last.out.visited)].chosen[1].title
                 /\ ~last.raised
                 /\ ~last.done
                 /\ run.sending = h[3]
                 /\ (last.out.writeOk = "execute_raises" => ledger = last.before)
        /\ (OverAfter(h[1]) /\ last.sel.writeOk \in WriteOutcomes
               /\ ~Healthy(last.sel.writeOk))
              => /\ last.sel.found
                 /\ ~last.raised
                 /\ conv[last.user] = h[2]
                 /\ last.msgs[Len(last.msgs)] = h[3]

C14_Witness ==
    /\ OverAfter("get_world_content")
    /\ last.sel.writeOk = "execute_raises"
    /\ last.sel.found
    /\ conv[last.user] = WAITING_FOR_DIAMOND
    /\ last.sel.pairs \cap PairsIn(ledger) = {}

(***************************************************************************)
(* Claims about the daily tick                                             *)
(***************************************************************************)
IsTick == last.op = "tick"

\* C11: with no recipient configured a tick does nothing: no selector (so
\* no feed and no translation), no message, no error, and the ledger and
\* the topic context are as they were.
C11_TickWithoutRecipientIsNoOp ==
    (IsTick /\ ~Truthy(admin_chat_id))
        => /\ last.selectors = <<>>
           /\ last.out = NoOutcome
           /\ last.msgs = <<>>
           /\ ~last.raised
           /\ last.done
           /\ ledger = last.before
           /\ ctx = last.ctx_before

C11_Witness ==
    /\ IsTick
    /\ admin_chat_id = None
    /\ last.msgs = <<>>
    /\ ledger # EmptyBag
    /\ ledger = last.before

\* C12: with a recipient configured a tick sends exactly one message, to
\* that recipient: the history item with the world_content trigger when the
\* selector returned an item, the plain notice with no trigger when it
\* returned NotFound.
C12_TickSendsOneMessage ==
    (IsTick /\ Truthy(admin_chat_id))
        => /\ last.sel.name = "get_history_today"
           /\ ~last.done =>
                 /\ last.selectors = <<"get_history_today">>
                 /\ last.msgs = <<>>
                 /\ job.pc = 1
           /\ last.done =>
                 /\ last.selectors = <<>>
                 /\ Len(last.msgs) = 1
                 /\ last.msgs[1] = IF last.sel.found
                                   THEN DailyMsg("history", "world_content", admin_chat_id)
                                   ELSE DailyMsg("notice", "none", admin_chat_id)

C12_Witness ==
    /\ IsTick
    /\ Truthy(admin_chat_id)
    /\ last.done
    /\ ~last.sel.found
    /\ last.msgs = <<DailyMsg("notice", "none", admin_chat_id)>>

(***************************************************************************)
(* Fetches of the same entry by several sessions and ticks                 *)
(***************************************************************************)
\* A handler and the daily job are in flight together when one of them is
\* suspended at a send.  No coroutine suspends between is_article_sent (line
\* 331) and mark_article_sent (line 378): translate_to_hebrew is awaited but
\* awaits nothing itself.  An entry is selected again while unmarked when
\* the INSERT of the earlier fetch raised.
RaceEnv == Env(SessionFeeds, BOOLEAN, WriteOutcomes, {<<TrGood, TrGood>>}, {}, {0},
               {"returned"})

NextRace ==
    \/ Return
    \/ Restart
    \/ Tick(RaceEnv)
    \/ \E u \in Users :
        \/ Start(u, RaceEnv)
        \/ Cancel(u, RaceEnv)

SpecRace == Init /\ [][NextRace]_vars

RecordsOf(rows, title, source) ==
    {r \in BagToSet(rows) : r.article_hash = ArticleHash(title, source)}

\* C23: in every reachable state no fingerprint has more than one record;
\* every fetch that selects an entry, also one that another session or a
\* tick has selected before and that is not marked yet, ends without error
\* and returns the item, and once its write went through the ledger holds
\* exactly one record of the entry's fingerprint.
C23_RaceKeepsOneRecord ==
    /\ \A r \in BagToSet(ledger) :
          /\ CopiesIn(r, ledger) = 1
          /\ RecordsOf(ledger, r.title, r.source) = {r}
    /\ \A pair \in (IF last.op \in {"update", "tick"} /\ last.selectors # <<>>
                       /\ Won(last.out)
                    THEN {<<last.out.visited[Len(last.out.visited)].chosen[1].title,
                            last.out.visited[Len(last.out.visited)].source>>}
                    ELSE {}) :
          /\ ~last.raised
          /\ last.out.result.found
          /\ last.out.result.original_title = pair[1]
          /\ Inserts(last.out.writeOk) =>
                /\ Cardinality(RecordsOf(ledger, pair[1], pair[2])) = 1
                /\ CopiesIn(Row(pair[1], pair[2]), ledger) = 1

\* while the daily job waits for its send, a session's fetch returns the
\* entry that the job's fetch returned and could not mark; the ledger ends
\* with one record of it
C23_Witness ==
    /\ IsUpdate
    /\ PairsOf(last) # {}
    /\ job.pc = 1
    /\ job.sel.pairs = PairsOf(last)
    /\ PairsOf(last) \subseteq hist.repeats
    /\ \A pair \in PairsOf(last) :
          /\ RecordsOf(last.before, pair[1], pair[2]) = {}
          /\ CopiesIn(Row(pair[1], pair[2]), ledger) = 1

(***************************************************************************)
(* Sessions and ticks over a storage that never fails                      *)
(***************************************************************************)
HealthyEnv == Env(SessionFeeds, {TRUE}, {"ok"}, {<<TrGood, TrGood>>},
                  SessionAnswers, {0}, {"returned", "offered", "topic"})

NextHealthy ==
    \/ Return
    \/ Restart
    \/ Tick(HealthyEnv)
    \/ \E u \in Users :
        \/ Start(u, HealthyEnv)
        \/ WorldContent(u, HealthyEnv)
        \/ DiamondFact(u, HealthyEnv)
        \/ VideoContent(u, HealthyEnv)
        \/ Cancel(u, HealthyEnv)
        \/ \E update \in Updates : Ignored(u, update)

SpecHealthy == Init /\ [][NextHealthy]_vars

\* C26: with storage healthy, whatever sessions and ticks have run, no
\* (original title, source URL) pair has been returned twice by the feed
\* selectors: the pair of a returned item was not in the ledger when the
\* call began and is in it when the call ends, and the ledger holds exactly
\* the pairs returned so far.
C26_NoPairReturnedTwice ==
    /\ hist.repeats = {}
    /\ hist.returned = PairsIn(ledger)
    /\ (last.op \in {"update", "tick"}) =>
          /\ PairsOf(last) \cap PairsIn(last.before) = {}
          /\ PairsOf(last) \subseteq PairsIn(ledger)
          /\ PairsIn(last.before) \subseteq PairsIn(ledger)

\* the first source serves an entry returned before, which is passed over,
\* and the item comes from the second source
C26_Witness ==
    /\ IsTick
    /\ PairsOf(last) = {<<War, backup_history_rss[1]>>}
    /\ <<War, history_rss>> \in PairsIn(last.before)
    /\ last.out.visited[1].feed = "war"
    /\ last.out.visited[1].status = "exhausted"
    /\ Cardinality(hist.returned) >= 2

(***************************************************************************)
(* Sessions and ticks over a transport that may refuse any send            *)
(***************************************************************************)
NetEnv == Env(SessionFeeds, {TRUE}, {"ok", "execute_raises"}, {<<TrGood, TrGood>>},
              SessionAnswers, 0..3, {})

\* one user, who is the recipient of the daily job when there is one
NetUsers == {"u1"}

NextNet ==
    \/ Return
    \/ Restart
    \/ Tick(NetEnv)
    \/ \E u \in NetUsers :
        \/ Start(u, NetEnv)
        \/ WorldContent(u, NetEnv)
        \/ DiamondFact(u, NetEnv)
        \/ VideoContent(u, NetEnv)
        \/ Cancel(u, NetEnv)
        \/ \E update \in Updates : Ignored(u, update)

SpecNet == Init /\ [][NextNet]_vars

StageHandlers ==
    {"start", "world_content_handler", "diamond_fact_handler", "video_content_handler"}

\* the state after the one a conversation is in, a conversation not yet
\* begun being before WAITING_FOR_WORLD
NextState(state) == IF state = END THEN WAITING_FOR_WORLD
                    ELSE IF state = WAITING_FOR_VIDEO THEN END
                    ELSE state + 1

\* C24: every invocation of a stage handler (start, world, diamond, video)
\* ends with the session in the next stage or in COMPLETE, also when
\* sending or editing the message fails.
C24_HandlerAlwaysAdvances ==
    (Over /\ last.handler \in StageHandlers) =>
        conv[last.user] \in {NextState(last.from), END}

\* C25: a (title, source) pair that a stage handler or a tick adds to the
\* ledger belongs to an item whose message was sent: when the send or edit
\* fails, the pair is not recorded.
C25_RecordedOnlyIfDelivered ==
    (last.op \in {"update", "tick"} /\ last.done /\ ~Delivered(last))
        => last.sel.pairs \cap PairsIn(ledger) = {}

\* C27: a recipient to whom a tick has delivered the history item with its
\* 'world_content' trigger, and who presses the trigger without a session
\* started with /start, is handled by world_content_handler.
C27_OfferedTriggerIsHandled ==
    (/\ IsUpdate
     /\ last.update = "world_content"
     /\ last.user \in hist.offered
     /\ last.from = END)
        => last.handler = "world_content_handler"

\* C28: the query variants of a session's video stage are those of the topic
\* of the last history or world item delivered to that session, whatever
\* other sessions and ticks have fetched in between.
C28_VideoQueriesFromOwnTopic ==
    (IsUpdate /\ last.selectors = <<"search_youtube_video">>) =>
        /\ last.out.tried # <<>>
        /\ \A i \in 1..Len(last.out.tried) :
              last.out.tried[i].query = QueriesFor(hist.topic[last.user])[i]

====
